---- MODULE Spec2Model ----
(***************************************************************************)
(* A model of the lovedarts browser-side authentication flow:              *)
(*   - AuthService (services/authService): the listener registry, the     *)
(*     auth-state fan-out, and the normalisation of provider responses,    *)
(*   - ProfileService (services/profileService): createUserProfile.        *)
(*                                                                         *)
(* The JavaScript runtime is a single event loop: a handler runs to its    *)
(* next await (or to its end) without interleaving.  The fan-out of        *)
(* notifyListeners is split into one step per callback only because a      *)
(* callback is caller-supplied code that may re-enter the service          *)
(* (register, unsubscribe) or raise.                                       *)
(***************************************************************************)
EXTENDS Integers, Sequences, FiniteSets, TLC

----------------------------------------------------------------------------
(* Bounds of the model *)

\* registrations (calls of onAuthStateChange) in one behaviour
MaxRegs == 3
\* invocations of one unsubscribe function in one behaviour
MaxUnsubCalls == 2
\* gateway calls in flight at the same time
MaxInFlight == 2

----------------------------------------------------------------------------
(* Values *)

\* JavaScript null
Null == "null"
\* a field that is not present in an object literal (undefined)
Absent == "<absent>"

\* callback references handed to onAuthStateChange
Callbacks == {"cbA", "cbB"}
\* user records issued by the provider
Users == {"u1", "u2"}
\* session records issued by the provider
Tokens == {"s1"}

\* the session argument of a provider state event: null, or a session
\* object whose user field is a user record or missing
EventSessions ==
    {[present |-> FALSE, user |-> Null]}
        \cup {[present |-> TRUE, user |-> u] : u \in Users \cup {Null}}

Range(s) == {s[i] : i \in 1..Len(s)}

\* the arguments page code passes to the gateways
Emails == {"kez@darts.io"}
Passwords == {"hunter22"}
Usernames == {"kez"}

\* texts a raw provider error message is made of: the five table keys, a
\* prefix the provider may add, a key in another case
Fragments ==
    {"Invalid login credentials", "Email not confirmed",
     "User already registered", "Password should be at least 6 characters",
     "User not found", "AuthApiError: ", "invalid login credentials"}

\* the texts of exceptions the provider SDK may raise
ExceptionTexts == {"TypeError: Failed to fetch", "Invalid login credentials"}

\* the raw error messages: one fragment, or two concatenated, or none
RawErrors == {a \o b : a \in Fragments \cup {""}, b \in Fragments \cup {""}}

\* what a provider call does: it rejects (raises) with a text, or resolves
\* to {data, error}, error being null or an object with a message and data
\* being null or {user, session}
Rejects(text) ==
    [rejects |-> TRUE, thrown |-> text, hasError |-> FALSE, message |-> Absent,
     hasData |-> FALSE, user |-> Absent, session |-> Absent]
ResolvesError(msg) ==
    [rejects |-> FALSE, thrown |-> Absent, hasError |-> TRUE, message |-> msg,
     hasData |-> TRUE, user |-> Null, session |-> Null]
ResolvesData(u, t) ==
    [rejects |-> FALSE, thrown |-> Absent, hasError |-> FALSE, message |-> Absent,
     hasData |-> TRUE, user |-> u, session |-> t]
ResolvesNothing ==
    [rejects |-> FALSE, thrown |-> Absent, hasError |-> FALSE, message |-> Absent,
     hasData |-> FALSE, user |-> Absent, session |-> Absent]

\* a provider call resolving to an error and no data
ResolvesErrorNoData(msg) ==
    [rejects |-> FALSE, thrown |-> Absent, hasError |-> TRUE, message |-> msg,
     hasData |-> FALSE, user |-> Absent, session |-> Absent]

\* the outcomes of signInWithPassword and signUp
AuthResponses ==
    {Rejects(t) : t \in ExceptionTexts}
        \cup {ResolvesError(m) : m \in RawErrors}
        \cup {ResolvesData(u, t) : u \in Users \cup {Null}, t \in Tokens \cup {Null}}
        \cup {ResolvesNothing}

\* the outcomes of signOut and of from('profiles').insert(...): only the
\* error field is read
ErrorOnlyResponses ==
    {Rejects(t) : t \in ExceptionTexts}
        \cup {ResolvesError(m) : m \in Fragments \cup {""}}
        \cup {ResolvesData(Null, Null)}

\* the outcomes of auth.getSession and auth.getUser: a value or null in
\* data, an error beside null data or beside no data, a rejection
RetrievalResponses ==
    {Rejects(t) : t \in ExceptionTexts}
        \cup {ResolvesData(u, t) : u \in Users \cup {Null}, t \in Tokens \cup {Null}}
        \cup {ResolvesError(m) : m \in {"Auth session missing!"}}
        \cup {ResolvesErrorNoData(m) : m \in {"Auth session missing!"}}
        \cup {ResolvesNothing}

----------------------------------------------------------------------------
(* State *)

VARIABLES
    \* AuthService.authStateListeners: the array the field refers to; an
    \* element is the registration (the index of the onAuthStateChange call)
    \* whose callback reference it holds
    authStateListeners,
    \* callbackOf[h]: the callback captured by the h-th unsubscribe closure
    callbackOf,
    \* unsubCalls[h]: how often the h-th unsubscribe closure has been invoked
    unsubCalls,
    \* firstCallAt[h]: the number of registrations made when the h-th
    \* unsubscribe closure was first invoked (0: never invoked)
    firstCallAt,
    \* subscriptions AuthService holds on the provider's state stream
    upstreamSubs,
    \* "idle", or "fanout" while notifyListeners is iterating
    pc,
    \* the array object forEach is iterating, its length when forEach began,
    \* the next index, and whether the field still refers to that object
    fanArr, fanLen, fanIdx, fanSame,
    \* the value notifyListeners was called with
    fanUser,
    \* the callback invocations of the fan-out in progress
    invoked,
    \* console.error calls of the fan-out in progress
    errorLog,
    \* an exception left notifyListeners, into the provider's stream
    streamError,
    \* the event and the registry as they were when the fan-out began
    emitSession, emitListeners, emitCalls,
    \* gateway calls awaiting the provider, and the last one that completed
    inFlight, lastResult,
    \* import.meta.env as the build supplied it, and what evaluating the
    \* modules produced: the provider client, the error that aborted the
    \* load, whether the page's handlers are attached
    env, client, loadError, wired,
    \* the page under test ("login" or "signup") and the values in its inputs
    form, fields,
    \* the submit button (disabled, loading class, textContent), the error
    \* container (textContent, show class) and window.location
    button, errorBox, location,
    \* the handler invocations suspended at an await, oldest first, and the
    \* record of the last one that ran to its end
    subs, lastDone

listenerVars ==
    <<authStateListeners, callbackOf, unsubCalls, firstCallAt, upstreamSubs,
      pc, fanArr, fanLen, fanIdx, fanSame, fanUser, invoked, errorLog,
      streamError, emitSession, emitListeners, emitCalls>>

gatewayVars == <<inFlight, lastResult>>

formVars ==
    <<env, client, loadError, wired, form, fields, button, errorBox, location,
      subs, lastDone>>

vars == <<listenerVars, gatewayVars, formVars>>

----------------------------------------------------------------------------
(* AuthService: the listener registry *)

\* a registry that puts a new callback first (unshift in place of push)
PushListenerFront(listeners, h) == <<h>> \o listeners

\* this.authStateListeners.push(callback), for registration h
PushListener(listeners, h) == Append(listeners, h)

\* a filter with the comparison inverted: only the callback is kept
FilterListenersInverted(listeners, cbOf, cb) ==
    SelectSeq(listeners, LAMBDA r : cbOf[r] = cb)

\* a removal that drops the first element holding cb only (indexOf/splice)
FilterListenersFirstOnly(listeners, cbOf, cb) ==
    LET hits == {i \in 1..Len(listeners) : cbOf[listeners[i]] = cb} IN
    IF hits = {} THEN listeners
    ELSE LET k == CHOOSE i \in hits : \A j \in hits : i <= j IN
         SubSeq(listeners, 1, k - 1) \o SubSeq(listeners, k + 1, Len(listeners))

\* a removal that empties the registry
FilterListenersClearsAll(listeners, cbOf, cb) == <<>>

\* this.authStateListeners.filter((listener) => listener !== callback):
\* every element holding the callback reference cb is dropped
FilterListeners(listeners, cbOf, cb) ==
    SelectSeq(listeners, LAMBDA r : cbOf[r] # cb)

\* session?.user || null
DeriveUser(session) ==
    IF ~session.present THEN Null
    ELSE IF session.user = Null THEN Null
    ELSE session.user

\* callback(user) with no try/catch around it: a raise ends forEach and
\* leaves notifyListeners
CallbackGuardNoCatch(raises) ==
    [continue |-> ~raises, logged |-> FALSE, escaped |-> raises]

\* the try/catch around callback(user) in notifyListeners: what happens to
\* the iteration when the callback returns (raises = FALSE) or raises
CallbackGuard(raises) ==
    [continue |-> TRUE, logged |-> raises, escaped |-> FALSE]

\* a constructor that subscribes to the provider's stream twice
InitializeAuthStateListenerTwice(hasAuth) == IF hasAuth THEN 2 ELSE 0

\* constructor + initializeAuthStateListener: one upstream subscription when
\* the client has an auth capability, none otherwise
InitializeAuthStateListener(hasAuth) == IF hasAuth THEN 1 ELSE 0

\* the body of onAuthStateChange(callback), as the idle page code or a
\* running callback calls it
Register(cb) ==
    /\ Len(callbackOf) < MaxRegs
    /\ LET h == Len(callbackOf) + 1 IN
        /\ callbackOf' = Append(callbackOf, cb)
        /\ unsubCalls' = Append(unsubCalls, 0)
        /\ firstCallAt' = Append(firstCallAt, 0)
        /\ authStateListeners' = PushListener(authStateListeners, h)
        \* push mutates the array in place: forEach sees the same object
        /\ fanArr' = IF fanSame THEN PushListener(fanArr, h) ELSE fanArr
        /\ fanSame' = fanSame

\* a removal that edits the array in place (splice), so that a forEach in
\* progress iterates the shortened array
UnsubscribeInPlace(h) ==
    /\ h \in 1..Len(callbackOf)
    /\ unsubCalls[h] < MaxUnsubCalls
    /\ unsubCalls' = [unsubCalls EXCEPT ![h] = @ + 1]
    /\ firstCallAt' =
        IF firstCallAt[h] = 0
        THEN [firstCallAt EXCEPT ![h] = Len(callbackOf)]
        ELSE firstCallAt
    /\ authStateListeners' =
        FilterListeners(authStateListeners, callbackOf, callbackOf[h])
    /\ fanArr' = IF fanSame
                 THEN FilterListeners(fanArr, callbackOf, callbackOf[h])
                 ELSE fanArr
    /\ fanSame' = fanSame
    /\ callbackOf' = callbackOf

\* the body of the h-th unsubscribe closure
Unsubscribe(h) ==
    /\ h \in 1..Len(callbackOf)
    /\ unsubCalls[h] < MaxUnsubCalls
    /\ unsubCalls' = [unsubCalls EXCEPT ![h] = @ + 1]
    /\ firstCallAt' =
        IF firstCallAt[h] = 0
        THEN [firstCallAt EXCEPT ![h] = Len(callbackOf)]
        ELSE firstCallAt
    /\ authStateListeners' =
        FilterListeners(authStateListeners, callbackOf, callbackOf[h])
    \* filter builds a new array and the field is reassigned: the array
    \* forEach is iterating is left as it is
    /\ fanArr' = fanArr
    /\ fanSame' = FALSE
    /\ callbackOf' = callbackOf

registryVars ==
    <<authStateListeners, callbackOf, unsubCalls, firstCallAt, fanArr, fanSame>>

fanoutVars ==
    <<pc, fanLen, fanIdx, fanUser, invoked, errorLog, streamError,
      emitSession, emitListeners, emitCalls>>

\* onAuthStateChange(cb) called by page code
OnAuthStateChange(cb) ==
    /\ pc = "idle"
    /\ Register(cb)
    /\ UNCHANGED <<fanoutVars, upstreamSubs, gatewayVars, formVars>>

\* an unsubscribe closure called by page code
CallUnsubscribe(h) ==
    /\ pc = "idle"
    /\ Unsubscribe(h)
    /\ UNCHANGED <<fanoutVars, upstreamSubs, gatewayVars, formVars>>

\* the provider's state stream emits (event, session): the arrow function
\* of initializeAuthStateListener derives user and enters notifyListeners
ProviderEvent(session) ==
    /\ pc = "idle"
    /\ upstreamSubs > 0
    /\ pc' = "fanout"
    /\ fanUser' = DeriveUser(session)
    /\ fanArr' = authStateListeners
    /\ fanLen' = Len(authStateListeners)
    /\ fanIdx' = 1
    /\ fanSame' = TRUE
    /\ invoked' = <<>>
    /\ errorLog' = 0
    /\ streamError' = FALSE
    /\ emitSession' = session
    /\ emitListeners' = authStateListeners
    /\ emitCalls' = unsubCalls
    /\ UNCHANGED <<authStateListeners, callbackOf, unsubCalls, firstCallAt,
                   upstreamSubs, gatewayVars, formVars>>

\* what a callback may do while it runs: nothing, register a callback, or
\* call an unsubscribe closure
Reentry(act) ==
    CASE act.kind = "none" -> UNCHANGED registryVars
      [] act.kind = "sub" -> Register(act.cb)
      [] act.kind = "unsub" -> Unsubscribe(act.h)

ReentryActs ==
    {[kind |-> "none", cb |-> Null, h |-> 0]}
        \cup {[kind |-> "sub", cb |-> c, h |-> 0] : c \in Callbacks}
        \cup {[kind |-> "unsub", cb |-> Null, h |-> h] : h \in 1..MaxRegs}

\* one iteration of forEach in notifyListeners: callback(user) inside
\* try/catch; the callback does act and then returns or raises
InvokeListener(act, raises) ==
    /\ pc = "fanout"
    /\ fanIdx <= fanLen
    /\ LET r == fanArr[fanIdx]
           g == CallbackGuard(raises)
       IN
        /\ invoked' =
            Append(invoked, [reg |-> r, cb |-> callbackOf[r], user |-> fanUser,
                             raised |-> raises])
        /\ Reentry(act)
        /\ errorLog' = IF g.logged THEN errorLog + 1 ELSE errorLog
        /\ streamError' = g.escaped
        /\ fanIdx' = IF g.continue THEN fanIdx + 1 ELSE fanLen + 1
    /\ UNCHANGED <<pc, fanLen, fanUser, emitSession, emitListeners, emitCalls,
                   upstreamSubs, gatewayVars, formVars>>

\* forEach is done: notifyListeners returns to the provider's stream
FanoutReturn ==
    /\ pc = "fanout"
    /\ fanIdx > fanLen
    /\ pc' = "idle"
    /\ fanArr' = <<>>
    /\ fanLen' = 0
    /\ fanIdx' = 0
    /\ fanSame' = FALSE
    /\ fanUser' = Null
    /\ invoked' = <<>>
    /\ errorLog' = 0
    /\ streamError' = FALSE
    /\ emitSession' = [present |-> FALSE, user |-> Null]
    /\ emitListeners' = <<>>
    /\ emitCalls' = <<>>
    /\ UNCHANGED <<authStateListeners, callbackOf, unsubCalls, firstCallAt,
                   upstreamSubs, gatewayVars, formVars>>

----------------------------------------------------------------------------
(* AuthService and ProfileService: the normalisation of provider responses *)

\* String.prototype.includes: key occurs in s as a substring
Includes(s, key) ==
    \E i \in 1..(Len(s) - Len(key) + 1) : SubSeq(s, i, i + Len(key) - 1) = key

\* errorMap of formatErrorMessage, in the order Object.entries yields it
errorMap ==
    << <<"Invalid login credentials", "Invalid email or password">>,
       <<"Email not confirmed", "Please confirm your email before logging in">>,
       <<"User already registered", "This email is already registered">>,
       <<"Password should be at least 6 characters",
         "Password must be at least 6 characters">>,
       <<"User not found", "No account found with this email">> >>

\* formatErrorMessage with the entries tried last to first
formatErrorMessageReversed(rawError) ==
    LET hits == {i \in 1..Len(errorMap) : Includes(rawError, errorMap[i][1])} IN
    IF hits = {} THEN "Authentication failed. Please try again"
    ELSE errorMap[CHOOSE i \in hits : \A j \in hits : j <= i][2]

\* formatErrorMessage falling back to the raw text
formatErrorMessageRaw(rawError) ==
    LET hits == {i \in 1..Len(errorMap) : Includes(rawError, errorMap[i][1])} IN
    IF hits = {} THEN rawError
    ELSE errorMap[CHOOSE i \in hits : \A j \in hits : i <= j][2]

\* formatErrorMessage: the message of the first entry whose key rawError
\* includes, or the fallback
formatErrorMessage(rawError) ==
    LET hits == {i \in 1..Len(errorMap) : Includes(rawError, errorMap[i][1])} IN
    IF hits = {} THEN "Authentication failed. Please try again"
    ELSE errorMap[CHOOSE i \in hits : \A j \in hits : i <= j][2]

\* this.formatErrorMessage(error.message), tabulated once over the raw
\* messages of the model
FormattedError == [m \in RawErrors |-> formatErrorMessage(m)]

\* the promise of an async operation whose body, all inside try/catch,
\* returns result: fulfilled with it, never rejected
Returned(result) == [raised |-> FALSE, result |-> result]

\* { success: false, error }
Failure(error) ==
    [success |-> FALSE, user |-> Absent, session |-> Absent, error |-> error]
\* { success: true, user: data.user, session: data.session }
Success(user, session) ==
    [success |-> TRUE, user |-> user, session |-> session, error |-> Absent]
\* { success: true }
BareSuccess ==
    [success |-> TRUE, user |-> Absent, session |-> Absent, error |-> Absent]

\* login passing the exception's message on as the error
loginLeaksException(resp) ==
    IF resp.rejects THEN Returned(Failure(resp.thrown))
    ELSE IF resp.hasError
        THEN Returned(Failure(FormattedError[resp.message]))
    ELSE IF ~resp.hasData
        THEN Returned(Failure("An unexpected error occurred during login"))
    ELSE Returned(Success(resp.user, resp.session))

\* login after `await signInWithPassword` has settled with resp; reading
\* data.user of a missing data raises a TypeError inside the try
login(resp) ==
    IF resp.rejects
        THEN Returned(Failure("An unexpected error occurred during login"))
    ELSE IF resp.hasError
        THEN Returned(Failure(FormattedError[resp.message]))
    ELSE IF ~resp.hasData
        THEN Returned(Failure("An unexpected error occurred during login"))
    ELSE Returned(Success(resp.user, resp.session))

\* signup returning the error beside the provider's data
signupKeepsData(resp) ==
    IF resp.rejects
        THEN Returned(Failure("An unexpected error occurred during signup"))
    ELSE IF resp.hasError
        THEN Returned([success |-> FALSE, user |-> resp.user,
                       session |-> resp.session,
                       error |-> FormattedError[resp.message]])
    ELSE IF ~resp.hasData
        THEN Returned(Failure("An unexpected error occurred during signup"))
    ELSE Returned(Success(resp.user, resp.session))

\* signup with no session in its result
signupDropsSession(resp) ==
    IF resp.rejects
        THEN Returned(Failure("An unexpected error occurred during signup"))
    ELSE IF resp.hasError
        THEN Returned(Failure(FormattedError[resp.message]))
    ELSE IF ~resp.hasData
        THEN Returned(Failure("An unexpected error occurred during signup"))
    ELSE Returned(Success(resp.user, Absent))

\* signup after `await signUp` has settled with resp
signup(resp) ==
    IF resp.rejects
        THEN Returned(Failure("An unexpected error occurred during signup"))
    ELSE IF resp.hasError
        THEN Returned(Failure(FormattedError[resp.message]))
    ELSE IF ~resp.hasData
        THEN Returned(Failure("An unexpected error occurred during signup"))
    ELSE Returned(Success(resp.user, resp.session))

\* logout sending a provider-reported error through the error table
logoutFormatsError(resp) ==
    IF resp.rejects
        THEN Returned(Failure("An unexpected error occurred during logout"))
    ELSE IF resp.hasError
        THEN Returned(Failure(formatErrorMessage(resp.message)))
    ELSE Returned(BareSuccess)

\* logout after `await signOut` has settled with resp
logout(resp) ==
    IF resp.rejects
        THEN Returned(Failure("An unexpected error occurred during logout"))
    ELSE IF resp.hasError THEN Returned(Failure("Failed to logout"))
    ELSE Returned(BareSuccess)

\* createUserProfile after `await ...insert(...)` has settled with resp
createUserProfile(resp) ==
    IF resp.rejects
        THEN Returned(Failure("An unexpected error occurred while creating profile"))
    ELSE IF resp.hasError THEN Returned(Failure("Failed to create user profile"))
    ELSE Returned(BareSuccess)

\* the promise of getSession / getUser: fulfilled with a value
ReturnedValue(value) == [raised |-> FALSE, value |-> value]

\* the promise of a getter with no try/catch, the provider call rejecting
RejectedValue(text) == [raised |-> TRUE, value |-> text]

\* getSession with no try/catch around the provider call
getSessionNoCatch(resp) ==
    IF resp.rejects THEN RejectedValue(resp.thrown)
    ELSE IF ~resp.hasData THEN RejectedValue("TypeError")
    ELSE ReturnedValue(resp.session)

\* getSession after `await auth.getSession()` has settled with resp;
\* reading data.session of a missing data raises inside the try
getSession(resp) ==
    IF resp.rejects THEN ReturnedValue(Null)
    ELSE IF ~resp.hasData THEN ReturnedValue(Null)
    ELSE ReturnedValue(resp.session)

\* getUser after `await auth.getUser()` has settled with resp: data.user || null
getUser(resp) ==
    IF resp.rejects THEN ReturnedValue(Null)
    ELSE IF ~resp.hasData THEN ReturnedValue(Null)
    ELSE IF resp.user \in {Null, Absent, ""} THEN ReturnedValue(Null)
    ELSE ReturnedValue(resp.user)

\* the argument object an operation hands to its provider call
Payload(op, a1, a2) ==
    CASE op \in {"login", "signup"} ->
            [table |-> Absent, id |-> Absent, username |-> Absent,
             email |-> a1, password |-> a2]
      [] op = "createUserProfile" ->
            [table |-> "profiles", id |-> a1, username |-> a2,
             email |-> Absent, password |-> Absent]
      [] OTHER ->
            [table |-> Absent, id |-> Absent, username |-> Absent,
             email |-> Absent, password |-> Absent]

\* the provider call each operation makes with its arguments
ProviderCall(op, a1, a2) ==
    [op |-> op,
     call |-> CASE op = "login" -> "auth.signInWithPassword"
                [] op = "signup" -> "auth.signUp"
                [] op = "logout" -> "auth.signOut"
                [] op = "getSession" -> "auth.getSession"
                [] op = "getUser" -> "auth.getUser"
                [] op = "createUserProfile" -> "from(profiles).insert",
     a1 |-> a1, a2 |-> a2,
     payload |-> Payload(op, a1, a2)]

\* an operation that issues its provider call again when the call failed
AfterSettleRetry(pending, i, out) ==
    IF pending[i].op = "createUserProfile" /\ ~out.result.success
    THEN pending
    ELSE SubSeq(pending, 1, i - 1) \o SubSeq(pending, i + 1, Len(pending))

\* the provider calls still pending once the i-th has settled and its
\* operation has returned out: the operation issues no further call
AfterSettle(pending, i, out) ==
    SubSeq(pending, 1, i - 1) \o SubSeq(pending, i + 1, Len(pending))

\* no gateway call has completed yet
NoResult ==
    [op |-> "none", a1 |-> Absent, a2 |-> Absent, resp |-> ResolvesNothing,
     out |-> Returned(BareSuccess)]


\* ---- the pages: the provider client and the two form controllers ----

\* handler invocations that may be suspended at an await at the same time
MaxSubmissions == 2

\* import.meta.env.VITE_SUPABASE_URL and VITE_SUPABASE_ANON_KEY: not defined
\* by the build, defined empty, or defined
EnvUrls == {Absent, "", "https://lovedarts.supabase.co"}
EnvKeys == {Absent, "", "anon-key"}

\* JavaScript's !v for a string or undefined
Falsy(v) == v \in {Absent, ""}

\* the client object the provider SDK's createClient returns
createClient(url, key) == "SupabaseClient(" \o url \o ", " \o key \o ")"

supabaseClientUrlOnly(supabaseUrl, supabaseKey) ==
    IF Falsy(supabaseUrl)
    THEN [created |-> FALSE, client |-> Null,
          error |-> "Missing Supabase environment variables"]
    ELSE [created |-> TRUE,
          client |-> createClient(supabaseUrl, supabaseKey),
          error |-> Absent]

\* evaluating supabase.ts: the guard throws, or the provider SDK's
\* createClient is called with the two values and its result exported
supabaseClient(supabaseUrl, supabaseKey) ==
    IF Falsy(supabaseUrl) \/ Falsy(supabaseKey)
    THEN [created |-> FALSE, client |-> Null,
          error |-> "Missing Supabase environment variables"]
    ELSE [created |-> TRUE,
          client |-> createClient(supabaseUrl, supabaseKey),
          error |-> Absent]

Forms == {"login", "signup"}

\* the button's markup text
ButtonLabel(f) == IF f = "login" THEN "Log In" ELSE "Sign Up"

\* the values of the inputs
Typed(email, password, username) ==
    [email |-> email, password |-> password, username |-> username]

\* what the user may have typed into the inputs of the login page
LoginTyped ==
    {Typed("", "", Absent), Typed("  ", "hunter22", Absent),
     Typed(" kez@darts.io ", "", Absent), Typed("not-an-email", "abc", Absent),
     Typed(" kez@darts.io ", "hunter22", Absent)}

\* and of the signup page
SignupTyped ==
    {Typed("", "", ""), Typed("  ", "hunter22", " kez "),
     Typed(" kez@darts.io ", "hunter22", "  "),
     Typed("not-an-email", "abc", "ab"),
     Typed(" kez@darts.io ", "abc", " kez "),
     Typed(" kez@darts.io ", "abc", "ab"),
     Typed(" kez@darts.io ", "hunter22", " ab "),
     Typed(" kez@darts.io ", "hunter22", " kez ")}

FormFields(f) == IF f = "login" THEN LoginTyped ELSE SignupTyped

\* String.prototype.trim, for strings padded with spaces
Trim(s) ==
    LET kept == {i \in 1..Len(s) : SubSeq(s, i, i) # " "}
    IN  IF kept = {} THEN ""
        ELSE SubSeq(s, CHOOSE i \in kept : \A j \in kept : i <= j,
                       CHOOSE i \in kept : \A j \in kept : i >= j)

MinPasswordLength == 6
MinUsernameLength == 3

\* validation passed
Valid == Absent

\* the checks handleLogin makes before it touches the button: the message
\* of the first one that fails
validateLogin(email, password) ==
    IF email = "" \/ password = "" THEN "Please enter both email and password"
    ELSE IF ~Includes(email, "@") THEN "Please enter a valid email address"
    ELSE Valid

validateSignupLengthsFirst(email, password, username) ==
    IF email = "" \/ password = "" \/ username = ""
    THEN "Please fill in all fields"
    ELSE IF Len(password) < MinPasswordLength
    THEN "Password must be at least 6 characters"
    ELSE IF Len(username) < MinUsernameLength
    THEN "Username must be at least 3 characters"
    ELSE IF ~Includes(email, "@") THEN "Please enter a valid email address"
    ELSE Valid

\* the checks handleSignup makes before it touches the button
validateSignup(email, password, username) ==
    IF email = "" \/ password = "" \/ username = ""
    THEN "Please fill in all fields"
    ELSE IF ~Includes(email, "@") THEN "Please enter a valid email address"
    ELSE IF Len(password) < MinPasswordLength
    THEN "Password must be at least 6 characters"
    ELSE IF Len(username) < MinUsernameLength
    THEN "Username must be at least 3 characters"
    ELSE Valid

\* result.error || fallback
OrElse(error, fallback) == IF Falsy(error) THEN fallback ELSE error

\* a user object the provider returned without an id
UserWithoutId == "user{}"

\* user.id, "" standing for a missing or empty id
UserId(user) == IF user \in Users THEN user ELSE ""

\* what the provider may answer to a call a form made
FormAuthResponses ==
    {Rejects("TypeError: Failed to fetch"),
     ResolvesError("invalid login credentials"),
     ResolvesError("AuthApiError: "),
     ResolvesNothing}
    \cup {ResolvesData(u, "s1") : u \in Users \cup {Null, UserWithoutId}}

FormProfileResponses ==
    {Rejects("TypeError: Failed to fetch"),
     ResolvesError("AuthApiError: "),
     ResolvesData(Null, Null)}

\* the awaited gateway promise rejects; the text is the exception's message
GatewayRejects ==
    [raised |-> TRUE, result |-> Failure("Error: gateway call rejected")]

\* what an await on a gateway call may deliver to a controller
LoginOutcomes == {login(r) : r \in FormAuthResponses} \cup {GatewayRejects}
SignupOutcomes == {signup(r) : r \in FormAuthResponses} \cup {GatewayRejects}
ProfileOutcomes ==
    {createUserProfile(r) : r \in FormProfileResponses} \cup {GatewayRejects}

\* no result has been delivered
NoOutcome == Returned(Failure(Absent))

\* how a handler goes on after an await: to the profile step, to the
\* redirect, or to showError with a message
GoOn(next, message, id) == [next |-> next, message |-> message, id |-> id]

UnexpectedError == "An unexpected error occurred. Please try again."

\* handleLogin redirecting whenever the call did not raise
loginStepIgnoresFailure(out) ==
    IF out.raised THEN GoOn("exception", UnexpectedError, "")
    ELSE GoOn("navigate", Absent, "")

\* handleLogin showing the exception's message
loginStepShowsException(out) ==
    IF out.raised THEN GoOn("exception", out.result.error, "")
    ELSE IF out.result.success THEN GoOn("navigate", Absent, "")
    ELSE GoOn("failed", OrElse(out.result.error, "Login failed"), "")

\* handleLogin after authService.login settled
loginStep(out) ==
    IF out.raised THEN GoOn("exception", UnexpectedError, "")
    ELSE IF out.result.success THEN GoOn("navigate", Absent, "")
    ELSE GoOn("failed", OrElse(out.result.error, "Login failed"), "")

signupStepSkipsIdCheck(out) ==
    IF out.raised THEN GoOn("exception", UnexpectedError, "")
    ELSE IF ~out.result.success
    THEN GoOn("failed", OrElse(out.result.error, "Signup failed"), "")
    ELSE GoOn("profile", Absent, UserId(out.result.user))

\* handleSignup after authService.signup settled
signupStep(out) ==
    IF out.raised THEN GoOn("exception", UnexpectedError, "")
    ELSE IF ~out.result.success
    THEN GoOn("failed", OrElse(out.result.error, "Signup failed"), "")
    ELSE IF out.result.user \in {Null, Absent} \/ UserId(out.result.user) = ""
    THEN GoOn("failed", "Failed to create user account", "")
    ELSE GoOn("profile", Absent, UserId(out.result.user))

profileStepStaysOnPage(out) ==
    IF out.raised THEN GoOn("exception", UnexpectedError, "")
    ELSE IF ~out.result.success
    THEN GoOn("failed",
              OrElse(out.result.error, "Failed to create user profile"), "")
    ELSE GoOn("failed", "Failed to create user profile", "")

profileStepGenericMessage(out) ==
    IF out.raised THEN GoOn("exception", UnexpectedError, "")
    ELSE IF ~out.result.success THEN GoOn("failed", UnexpectedError, "")
    ELSE GoOn("navigate", Absent, "")

\* handleSignup after profileService.createUserProfile settled
profileStep(out) ==
    IF out.raised THEN GoOn("exception", UnexpectedError, "")
    ELSE IF ~out.result.success
    THEN GoOn("failed",
              OrElse(out.result.error, "Failed to create user profile"), "")
    ELSE GoOn("navigate", Absent, "")

\* the button as the handlers' loading state leaves it
LoadingButton == [disabled |-> TRUE, loading |-> TRUE, text |-> ""]

restoreButtonUnlessNavigating(current, originalText, next) ==
    IF next = "navigate" THEN current
    ELSE [disabled |-> FALSE, loading |-> FALSE, text |-> originalText]

\* the finally block of both handlers, entered however the try block ended
restoreButton(current, originalText, next) ==
    [disabled |-> FALSE, loading |-> FALSE, text |-> originalText]

ClearedError == [text |-> "", show |-> FALSE]
\* showError
showError(message) == [text |-> message, show |-> TRUE]

\* a gateway call as a controller makes it
GatewayCall(op, a1, a2) == [op |-> op, a1 |-> a1, a2 |-> a2]

\* a handler invocation suspended at its first await
Submission(originalText, email, password, username, call) ==
    [stage |-> "auth", originalText |-> originalText, email |-> email,
     password |-> password, username |-> username,
     signupResult |-> NoOutcome, calls |-> <<call>>]

\* nothing has run to its end yet
NotDone ==
    [path |-> "none", message |-> Absent, calls |-> <<>>,
     authOut |-> NoOutcome, profileOut |-> NoOutcome]

\* an empty registry and no fan-out in progress
InitRegistry ==
    /\ authStateListeners = <<>>
    /\ callbackOf = <<>>
    /\ unsubCalls = <<>>
    /\ firstCallAt = <<>>
    /\ pc = "idle"
    /\ fanArr = <<>>
    /\ fanLen = 0
    /\ fanIdx = 0
    /\ fanSame = FALSE
    /\ fanUser = Null
    /\ invoked = <<>>
    /\ errorLog = 0
    /\ streamError = FALSE
    /\ emitSession = [present |-> FALSE, user |-> Null]
    /\ emitListeners = <<>>
    /\ emitCalls = <<>>

InitListeners ==
    /\ InitRegistry
    /\ upstreamSubs = InitializeAuthStateListener(TRUE)

InitGateway ==
    /\ inFlight = <<>>
    /\ lastResult = NoResult

\* the page as its markup leaves it
InitPage(f) ==
    /\ form = f
    /\ fields = [email |-> "", password |-> "",
                 username |-> IF f = "login" THEN Absent ELSE ""]
    /\ button = [disabled |-> FALSE, loading |-> FALSE, text |-> ButtonLabel(f)]
    /\ errorBox = ClearedError
    /\ location = "index.html"
    /\ subs = <<>>
    /\ lastDone = NotDone

\* a configured build whose modules have been evaluated
InitLoaded ==
    /\ env = [url |-> "https://lovedarts.supabase.co", key |-> "anon-key"]
    /\ client = supabaseClient(env.url, env.key).client
    /\ loadError = Absent
    /\ wired = TRUE
    /\ InitPage("signup")

Init == InitListeners /\ InitGateway /\ InitLoaded

\* a page of some build before its module scripts are evaluated
InitForm ==
    /\ InitRegistry
    \* AuthService has not been constructed
    /\ upstreamSubs = 0
    /\ InitGateway
    /\ env \in [url : EnvUrls, key : EnvKeys]
    /\ client = Null
    /\ loadError = Absent
    /\ wired = FALSE
    /\ \E f \in Forms : InitPage(f)

NextListeners ==
    \/ \E cb \in Callbacks : OnAuthStateChange(cb)
    \/ \E h \in 1..MaxRegs : CallUnsubscribe(h)
    \/ \E s \in EventSessions : ProviderEvent(s)
    \/ \E act \in ReentryActs, raises \in BOOLEAN : InvokeListener(act, raises)
    \/ FanoutReturn

\* the listener registry and the fan-out
SpecListeners == Init /\ [][NextListeners]_vars

----------------------------------------------------------------------------
(* The gateways' operations as steps *)

\* an operation runs to its await: the provider call is issued
Issue(op, a1, a2) ==
    /\ Len(inFlight) < MaxInFlight
    /\ inFlight' = Append(inFlight, ProviderCall(op, a1, a2))
    /\ UNCHANGED <<lastResult, listenerVars, formVars>>

\* authService.login(email, password) up to its await
Login(email, password) == Issue("login", email, password)

\* authService.signup(email, password) up to its await
Signup(email, password) == Issue("signup", email, password)

\* authService.logout() up to its await
Logout == Issue("logout", Absent, Absent)

\* authService.getSession() up to its await
GetSession == Issue("getSession", Absent, Absent)

\* authService.getUser() up to its await
GetUser == Issue("getUser", Absent, Absent)

\* profileService.createUserProfile(userId, username) up to its await
CreateUserProfile(userId, username) ==
    Issue("createUserProfile", userId, username)

\* a gateway that shares one provider call among identical pending calls:
\* when it settles, every caller with the same arguments gets its result
SettleShared(i, resp, out) ==
    /\ lastResult' = [op |-> inFlight[i].op, a1 |-> inFlight[i].a1,
                      a2 |-> inFlight[i].a2, resp |-> resp, out |-> out]
    /\ inFlight' = SelectSeq(inFlight, LAMBDA c : c # inFlight[i])
    /\ UNCHANGED <<listenerVars, formVars>>

\* the i-th pending provider call settles with resp and the operation that
\* awaits it runs to its end
Settle(i, resp, out) ==
    /\ lastResult' = [op |-> inFlight[i].op, a1 |-> inFlight[i].a1,
                      a2 |-> inFlight[i].a2, resp |-> resp, out |-> out]
    /\ inFlight' = AfterSettle(inFlight, i, out)
    /\ UNCHANGED <<listenerVars, formVars>>

LoginSettles(i, resp) ==
    /\ i \in 1..Len(inFlight) /\ inFlight[i].op = "login"
    /\ Settle(i, resp, login(resp))

SignupSettles(i, resp) ==
    /\ i \in 1..Len(inFlight) /\ inFlight[i].op = "signup"
    /\ Settle(i, resp, signup(resp))

LogoutSettles(i, resp) ==
    /\ i \in 1..Len(inFlight) /\ inFlight[i].op = "logout"
    /\ Settle(i, resp, logout(resp))

CreateUserProfileSettles(i, resp) ==
    /\ i \in 1..Len(inFlight) /\ inFlight[i].op = "createUserProfile"
    /\ Settle(i, resp, createUserProfile(resp))

GetSessionSettles(i, resp) ==
    /\ i \in 1..Len(inFlight) /\ inFlight[i].op = "getSession"
    /\ Settle(i, resp, getSession(resp))

GetUserSettles(i, resp) ==
    /\ i \in 1..Len(inFlight) /\ inFlight[i].op = "getUser"
    /\ Settle(i, resp, getUser(resp))

NextGateway ==
    \/ \E e \in Emails, p \in Passwords : Login(e, p)
    \/ \E e \in Emails, p \in Passwords : Signup(e, p)
    \/ Logout
    \/ GetSession
    \/ GetUser
    \/ \E u \in Users, n \in Usernames : CreateUserProfile(u, n)
    \/ \E i \in 1..MaxInFlight, r \in AuthResponses : LoginSettles(i, r)
    \/ \E i \in 1..MaxInFlight, r \in AuthResponses : SignupSettles(i, r)
    \/ \E i \in 1..MaxInFlight, r \in ErrorOnlyResponses : LogoutSettles(i, r)
    \/ \E i \in 1..MaxInFlight, r \in ErrorOnlyResponses :
        CreateUserProfileSettles(i, r)
    \/ \E i \in 1..MaxInFlight, r \in RetrievalResponses : GetSessionSettles(i, r)
    \/ \E i \in 1..MaxInFlight, r \in RetrievalResponses : GetUserSettles(i, r)

\* the gateways' operations against the provider
SpecGateway == Init /\ [][NextGateway]_vars

\* ---- the pages ----

pageVars == <<env, form, fields, location, lastDone>>

\* the page's module scripts are evaluated: supabase.ts, then the services
\* that import it (the AuthService constructor subscribes to the provider's
\* state stream), then the page module, which attaches its handlers; an
\* exception in supabase.ts ends the evaluation of every importing module
LoadPage ==
    /\ client = Null
    /\ loadError = Absent
    /\ LET module == supabaseClient(env.url, env.key)
       IN  /\ client' = module.client
           /\ loadError' = module.error
           /\ wired' = module.created
           /\ upstreamSubs' =
                IF module.created THEN InitializeAuthStateListener(TRUE)
                ELSE upstreamSubs
    /\ UNCHANGED <<registryVars, fanoutVars, gatewayVars, pageVars,
                   button, errorBox, subs>>

\* the user edits the inputs
Type(typed) ==
    /\ wired
    /\ typed # fields
    /\ fields' = typed
    /\ UNCHANGED <<listenerVars, gatewayVars, env, client, loadError, wired,
                   form, button, errorBox, location, subs, lastDone>>

\* handleLogin up to its await (or to the return of a failed check)
handleLogin ==
    LET email == Trim(fields.email)
        password == fields.password
        verdict == validateLogin(email, password)
    IN  /\ form = "login"
        /\ IF verdict # Valid
           THEN /\ errorBox' = showError(verdict)
                /\ UNCHANGED <<button, subs>>
           ELSE /\ Len(subs) < MaxSubmissions
                /\ errorBox' = ClearedError
                /\ button' = LoadingButton
                /\ subs' = Append(subs,
                        Submission(button.text, email, password, Absent,
                                   GatewayCall("login", email, password)))
        /\ UNCHANGED <<listenerVars, gatewayVars, pageVars, client, loadError,
                       wired>>

\* handleSignup up to its first await (or to the return of a failed check)
handleSignup ==
    LET email == Trim(fields.email)
        password == fields.password
        username == Trim(fields.username)
        verdict == validateSignup(email, password, username)
    IN  /\ form = "signup"
        /\ IF verdict # Valid
           THEN /\ errorBox' = showError(verdict)
                /\ UNCHANGED <<button, subs>>
           ELSE /\ Len(subs) < MaxSubmissions
                /\ errorBox' = ClearedError
                /\ button' = LoadingButton
                /\ subs' = Append(subs,
                        Submission(button.text, email, password, username,
                                   GatewayCall("signup", email, password)))
        /\ UNCHANGED <<listenerVars, gatewayVars, pageVars, client, loadError,
                       wired>>

\* a click on the submit button: a disabled button dispatches none
ClickSubmit ==
    /\ wired
    /\ ~button.disabled
    /\ (handleLogin \/ handleSignup)

\* a keypress of Enter in the password input
PressEnter ==
    /\ wired
    /\ (handleLogin \/ handleSignup)

\* the invocation shows its outcome and then stays suspended for good
CompleteLeavesSuspended(k, step, authOut, profileOut) ==
    /\ errorBox' = IF step.next = "navigate" THEN errorBox
                   ELSE showError(step.message)
    /\ location' = IF step.next = "navigate" THEN "hub.html" ELSE location
    /\ lastDone' = [path |-> step.next, message |-> step.message,
                    calls |-> subs[k].calls, authOut |-> authOut,
                    profileOut |-> profileOut]
    /\ UNCHANGED <<listenerVars, gatewayVars, env, client, loadError, wired,
                   form, fields, button, subs>>

\* the k-th suspended invocation runs to its end: showError or the
\* redirect, then the finally block
Complete(k, step, authOut, profileOut) ==
    /\ errorBox' = IF step.next = "navigate" THEN errorBox
                   ELSE showError(step.message)
    /\ location' = IF step.next = "navigate" THEN "hub.html" ELSE location
    /\ button' = restoreButton(button, subs[k].originalText, step.next)
    /\ subs' = SubSeq(subs, 1, k - 1) \o SubSeq(subs, k + 1, Len(subs))
    /\ lastDone' = [path |-> step.next, message |-> step.message,
                    calls |-> subs[k].calls, authOut |-> authOut,
                    profileOut |-> profileOut]
    /\ UNCHANGED <<listenerVars, gatewayVars, env, client, loadError, wired,
                   form, fields>>

\* authService.login settles and handleLogin resumes
LoginResumes(k, out) ==
    /\ form = "login"
    /\ k \in 1..Len(subs)
    /\ Complete(k, loginStep(out), out, NoOutcome)

\* authService.signup settles and handleSignup resumes, up to its second
\* await or to its end
SignupResumes(k, out) ==
    /\ form = "signup"
    /\ k \in 1..Len(subs)
    /\ subs[k].stage = "auth"
    /\ LET step == signupStep(out)
       IN  IF step.next = "profile"
           THEN /\ subs' = [subs EXCEPT ![k] =
                        [@ EXCEPT !.stage = "profile", !.signupResult = out,
                                  !.calls = Append(@,
                                      GatewayCall("createUserProfile",
                                                  step.id, subs[k].username))]]
                /\ UNCHANGED <<listenerVars, gatewayVars, pageVars, client,
                               loadError, wired, button, errorBox>>
           ELSE Complete(k, step, out, NoOutcome)

\* profileService.createUserProfile settles and handleSignup resumes
ProfileResumes(k, out) ==
    /\ form = "signup"
    /\ k \in 1..Len(subs)
    /\ subs[k].stage = "profile"
    /\ Complete(k, profileStep(out), subs[k].signupResult, out)

NextForm ==
    \/ LoadPage
    \/ \E typed \in FormFields(form) : Type(typed)
    \/ ClickSubmit
    \/ PressEnter
    \/ \E k \in 1..MaxSubmissions, out \in LoginOutcomes : LoginResumes(k, out)
    \/ \E k \in 1..MaxSubmissions, out \in SignupOutcomes :
            SignupResumes(k, out)
    \/ \E k \in 1..MaxSubmissions, out \in ProfileOutcomes :
            ProfileResumes(k, out)

\* the pages of a build, from the evaluation of their modules on
SpecForm == InitForm /\ [][NextForm]_vars

----------------------------------------------------------------------------
(* Claims about the listener registry and the fan-out (SpecListeners) *)

\* notifyListeners has visited every index: the fan-out is complete
FanoutDone == pc = "fanout" /\ fanIdx > fanLen

\* how often callback cb was invoked in the fan-out in progress
InvokedCount(cb) == Cardinality({i \in 1..Len(invoked) : invoked[i].cb = cb})

\* the registrations of callback cb that existed when the fan-out began
RegsAtEmit(cb) == {h \in 1..Len(emitCalls) : callbackOf[h] = cb}

\* the user a state event carries, as the specification words it
EventUser(session) ==
    IF session.present /\ session.user \in Users THEN session.user ELSE Null

\* C1: the same callback registered twice, then one of the two unsubscribe
\* functions invoked once: the other registration stays active, and a later
\* provider state event invokes the callback exactly once.
C1_OtherRegistrationStaysActive ==
    FanoutDone =>
        \A called, other \in 1..Len(emitCalls) :
            ( /\ called # other
              /\ callbackOf[called] = callbackOf[other]
              /\ RegsAtEmit(callbackOf[called]) = {called, other}
              /\ emitCalls[called] = 1
              /\ emitCalls[other] = 0
              /\ firstCallAt[called] >= other )
            => InvokedCount(callbackOf[called]) = 1

\* C2: a callback registered once and not unsubscribed is invoked exactly
\* once, with the user U of the event's session; a callback registered once
\* whose unsubscribe function has been called is not invoked by any later
\* event.
C2_InvokedOnceUntilUnsubscribed ==
    FanoutDone =>
        \A cb \in Callbacks : \A h \in RegsAtEmit(cb) :
            RegsAtEmit(cb) = {h} =>
                /\ emitCalls[h] = 0 =>
                    /\ InvokedCount(cb) = 1
                    /\ \A i \in 1..Len(invoked) :
                        invoked[i].cb = cb =>
                            /\ invoked[i].user = EventUser(emitSession)
                            /\ emitSession.user \in Users
                                => invoked[i].user = emitSession.user
                /\ emitCalls[h] >= 1 => InvokedCount(cb) = 0

\* one fan-out in which a callback registered once gets the event's user and
\* another, unsubscribed before the event, is not invoked
C2_Witness ==
    /\ FanoutDone
    /\ emitSession.present /\ emitSession.user \in Users
    /\ \E c1, c2 \in Callbacks : \E h1 \in RegsAtEmit(c1), h2 \in RegsAtEmit(c2) :
        /\ c1 # c2
        /\ RegsAtEmit(c1) = {h1} /\ emitCalls[h1] = 0
        /\ RegsAtEmit(c2) = {h2} /\ emitCalls[h2] >= 1
        /\ InvokedCount(c1) = 1 /\ InvokedCount(c2) = 0

\* C3: a provider state event invokes every listener registered when it
\* arrives, in registration order, each with the same value: the session's
\* user, or null when there is no session or no user.
C3_FanoutInRegistrationOrder ==
    FanoutDone =>
        /\ Len(invoked) = Len(emitListeners)
        /\ \A i \in 1..Len(invoked) :
            /\ invoked[i].reg = emitListeners[i]
            /\ invoked[i].user = EventUser(emitSession)
        /\ \A i, j \in 1..Len(invoked) :
            i < j => invoked[i].reg < invoked[j].reg

\* a fan-out over three listeners, with a user, during which the registry
\* was changed by a callback
C3_Witness ==
    /\ FanoutDone
    /\ Len(invoked) >= 3
    /\ emitSession.present /\ emitSession.user \in Users
    /\ authStateListeners # emitListeners

\* C4: a listener that raises does not keep any listener registered after
\* it from being invoked in the same fan-out, and nothing is raised into the
\* provider's state stream.
C4_RaisingListenerIsIsolated ==
    /\ ~streamError
    /\ FanoutDone =>
        \A i \in 1..Len(invoked) :
            invoked[i].raised =>
                \A j \in (i + 1)..Len(emitListeners) :
                    /\ j <= Len(invoked)
                    /\ invoked[j].reg = emitListeners[j]

\* the first of several listeners raised and the fan-out went on
C4_Witness ==
    /\ FanoutDone
    /\ Len(invoked) >= 2
    /\ invoked[1].raised
    /\ errorLog >= 1

\* the callbacks the registry holds
RegisteredCallbacks(listeners) == {callbackOf[r] : r \in Range(listeners)}

\* C5: removal is idempotent: calling an unsubscribe function again right
\* after a call of it, or when its callback is not in the registry, leaves
\* the registry as it is.
C5_UnsubscribeIdempotent ==
    [][\A h \in 1..Len(callbackOf) :
        unsubCalls'[h] = unsubCalls[h] + 1 =>
            /\ FilterListeners(authStateListeners', callbackOf', callbackOf'[h])
                = authStateListeners'
            /\ callbackOf[h] \notin RegisteredCallbacks(authStateListeners)
                => authStateListeners' = authStateListeners]_vars

\* an unsubscribe function was called twice while another callback stayed
\* registered
C5_Witness ==
    \E h \in 1..Len(callbackOf) :
        /\ unsubCalls[h] = 2
        /\ authStateListeners # <<>>
        /\ callbackOf[h] \notin RegisteredCallbacks(authStateListeners)

----------------------------------------------------------------------------
(* Claims about the normalisation of provider responses (SpecGateway) *)

\* the provider reported an error: the call resolved with an error object
ProviderReported(resp) == ~resp.rejects /\ resp.hasError

\* the provider call raised or rejected
ProviderRaised(resp) == resp.rejects

\* the provider call resolved with data and no error
ProviderSucceeded(resp) == ~resp.rejects /\ ~resp.hasError /\ resp.hasData

\* raw contains one of the five substrings of the error table
MatchesTable(raw) ==
    \/ Includes(raw, "Invalid login credentials")
    \/ Includes(raw, "Email not confirmed")
    \/ Includes(raw, "User already registered")
    \/ Includes(raw, "Password should be at least 6 characters")
    \/ Includes(raw, "User not found")

\* the table of the specification, read top to bottom, first match wins
TableMessage(raw) ==
    IF Includes(raw, "Invalid login credentials")
        THEN "Invalid email or password"
    ELSE IF Includes(raw, "Email not confirmed")
        THEN "Please confirm your email before logging in"
    ELSE IF Includes(raw, "User already registered")
        THEN "This email is already registered"
    ELSE IF Includes(raw, "Password should be at least 6 characters")
        THEN "Password must be at least 6 characters"
    ELSE IF Includes(raw, "User not found")
        THEN "No account found with this email"
    ELSE "Authentication failed. Please try again"

\* C6: login and signup map a provider-reported error by substring
\* containment through the table in its fixed order, first match wins; a raw
\* error containing 'Invalid login credentials' yields {success:false,
\* error:'Invalid email or password'} whatever else it contains.
C6_ErrorTableFirstMatchWins ==
    ( /\ lastResult.op \in {"login", "signup"}
      /\ ProviderReported(lastResult.resp)
      /\ MatchesTable(lastResult.resp.message) )
    => /\ ~lastResult.out.raised
       /\ lastResult.out.result
            = [success |-> FALSE, user |-> Absent, session |-> Absent,
               error |-> TableMessage(lastResult.resp.message)]
       /\ Includes(lastResult.resp.message, "Invalid login credentials")
            => lastResult.out.result.error = "Invalid email or password"

\* login answered a raw error in which another key precedes 'Invalid login
\* credentials'
C6_Witness ==
    /\ lastResult.op = "login"
    /\ ProviderReported(lastResult.resp)
    /\ lastResult.resp.message = "User not found" \o "Invalid login credentials"
    /\ lastResult.out.result.error = "Invalid email or password"

\* C7: for a provider-reported error that contains none of the five
\* substrings, login and signup return success=false with the error
\* 'Authentication failed. Please try again'.
C7_FallbackMessage ==
    ( /\ lastResult.op \in {"login", "signup"}
      /\ ProviderReported(lastResult.resp)
      /\ ~MatchesTable(lastResult.resp.message) )
    => /\ ~lastResult.out.raised
       /\ ~lastResult.out.result.success
       /\ lastResult.out.result.error = "Authentication failed. Please try again"

\* signup answered a raw error that misses every key, one of them by case
C7_Witness ==
    /\ lastResult.op = "signup"
    /\ ProviderReported(lastResult.resp)
    /\ lastResult.resp.message = "AuthApiError: " \o "invalid login credentials"
    /\ lastResult.out.result.error = "Authentication failed. Please try again"

\* C8: every result of login, signup, logout and createUserProfile, for
\* every provider outcome: success=true comes with no error; success=false
\* comes with a non-empty error string and with no user and no session; and
\* the operation does not raise to its caller.
C8_ResultShape ==
    lastResult.op \in {"login", "signup", "logout", "createUserProfile"} =>
        LET res == lastResult.out.result IN
        /\ ~lastResult.out.raised
        /\ res.success => res.error = Absent
        /\ ~res.success =>
            /\ res.error \notin {Absent, Null, ""}
            /\ Len(res.error) > 0
            /\ res.user = Absent
            /\ res.session = Absent

\* signup failed on a provider-reported error with an empty message while
\* another call was still awaiting the provider
C8_Witness ==
    /\ lastResult.op = "signup"
    /\ ProviderReported(lastResult.resp)
    /\ lastResult.resp.message = ""
    /\ ~lastResult.out.result.success
    /\ inFlight # <<>>

\* the messages login and signup produce for provider-reported errors
ProviderErrorMessages == {FormattedError[m] : m \in RawErrors}

\* C9: when the provider's sign-in call raises or rejects, login returns
\* {success:false, error:'An unexpected error occurred during login'}; the
\* error holds no raw exception text and differs from every message
\* produced for a provider-reported error.
C9_LoginExceptionIsGeneric ==
    (lastResult.op = "login" /\ ProviderRaised(lastResult.resp)) =>
        /\ ~lastResult.out.raised
        /\ lastResult.out.result
            = [success |-> FALSE, user |-> Absent, session |-> Absent,
               error |-> "An unexpected error occurred during login"]
        /\ ~Includes(lastResult.out.result.error, lastResult.resp.thrown)
        /\ lastResult.out.result.error \notin ProviderErrorMessages

\* the sign-in call rejected with a text that is a key of the error table
C9_Witness ==
    /\ lastResult.op = "login"
    /\ ProviderRaised(lastResult.resp)
    /\ lastResult.resp.thrown = "Invalid login credentials"
    /\ lastResult.out.result.error = "An unexpected error occurred during login"

\* C10: signup follows login's contract against signUp: a provider-reported
\* error goes through the same table, a raised exception yields a fixed
\* generic message without the exception's text, and on success the result
\* is {success:true, user, session} with the provider's fields as they are.
C10_SignupContract ==
    lastResult.op = "signup" =>
        LET resp == lastResult.resp
            res == lastResult.out.result
        IN
        /\ ~lastResult.out.raised
        /\ ProviderReported(resp) =>
            /\ res = [success |-> FALSE, user |-> Absent, session |-> Absent,
                      error |-> TableMessage(resp.message)]
            /\ res.error = login(resp).result.error
        /\ ProviderRaised(resp) =>
            /\ res = [success |-> FALSE, user |-> Absent, session |-> Absent,
                      error |-> "An unexpected error occurred during signup"]
            /\ ~Includes(res.error, resp.thrown)
        /\ ProviderSucceeded(resp) =>
            res = [success |-> TRUE, user |-> resp.user,
                   session |-> resp.session, error |-> Absent]

\* signup succeeded with the provider's user and session
C10_Witness ==
    /\ lastResult.op = "signup"
    /\ ProviderSucceeded(lastResult.resp)
    /\ lastResult.resp.user = "u1" /\ lastResult.resp.session = "s1"
    /\ lastResult.out.result.success
    /\ lastResult.out.result.user = "u1"
    /\ lastResult.out.result.session = "s1"

\* C11: logout maps every provider-reported error to 'Failed to logout'
\* whatever its raw text (no table lookup), a raised exception to 'An
\* unexpected error occurred during logout', and returns {success:true}
\* otherwise.
C11_LogoutMessages ==
    lastResult.op = "logout" =>
        LET resp == lastResult.resp IN
        /\ ~lastResult.out.raised
        /\ lastResult.out.result =
            IF ProviderRaised(resp)
                THEN [success |-> FALSE, user |-> Absent, session |-> Absent,
                      error |-> "An unexpected error occurred during logout"]
            ELSE IF ProviderReported(resp)
                THEN [success |-> FALSE, user |-> Absent, session |-> Absent,
                      error |-> "Failed to logout"]
            ELSE [success |-> TRUE, user |-> Absent, session |-> Absent,
                  error |-> Absent]

\* logout answered a provider-reported error whose text is a key of the
\* error table
C11_Witness ==
    /\ lastResult.op = "logout"
    /\ ProviderReported(lastResult.resp)
    /\ lastResult.resp.message = "User not found"
    /\ lastResult.out.result.error = "Failed to logout"

\* the retrieval failed: the call raised, reported an error, or held no data
RetrievalFailed(resp) == resp.rejects \/ resp.hasError \/ ~resp.hasData

\* C12: getSession and getUser never raise: for every provider outcome they
\* return the provider's session / user or null, and null whenever the
\* retrieval failed.
C12_GettersNeverRaise ==
    lastResult.op \in {"getSession", "getUser"} =>
        LET resp == lastResult.resp
            provided == IF lastResult.op = "getSession"
                        THEN resp.session ELSE resp.user
        IN
        /\ ~lastResult.out.raised
        /\ lastResult.out.value \in Users \cup Tokens \cup {Null}
        /\ RetrievalFailed(resp) => lastResult.out.value = Null
        /\ ~RetrievalFailed(resp) => lastResult.out.value = provided

\* getSession answered null to an error that came with no data
C12_Witness ==
    /\ lastResult.op = "getSession"
    /\ lastResult.resp.hasError /\ ~lastResult.resp.hasData
    /\ lastResult.out.value = Null

\* the last element of a non-empty sequence
Last(q) == q[Len(q)]

\* C13: createUserProfile(userId, username) issues one insert of
\* {id: userId, username} and none after it has settled (no retry); a
\* provider-reported error yields 'Failed to create user profile', a raised
\* exception 'An unexpected error occurred while creating profile', and
\* anything else {success:true}.
C13_CreateUserProfileOnce ==
    [][/\ ( /\ Len(inFlight') = Len(inFlight) + 1
            /\ Last(inFlight').op = "createUserProfile" )
          => /\ SubSeq(inFlight', 1, Len(inFlight)) = inFlight
             /\ Last(inFlight').call = "from(profiles).insert"
             /\ Last(inFlight').payload.table = "profiles"
             /\ Last(inFlight').payload.id = Last(inFlight').a1
             /\ Last(inFlight').payload.username = Last(inFlight').a2
       /\ ( /\ Len(inFlight') # Len(inFlight) + 1
            /\ lastResult'.op = "createUserProfile" )
          => /\ Len(inFlight') = Len(inFlight) - 1
             /\ ~lastResult'.out.raised
             /\ lastResult'.out.result =
                  IF ProviderRaised(lastResult'.resp)
                      THEN [success |-> FALSE, user |-> Absent,
                            session |-> Absent,
                            error |-> "An unexpected error occurred while creating profile"]
                  ELSE IF ProviderReported(lastResult'.resp)
                      THEN [success |-> FALSE, user |-> Absent,
                            session |-> Absent,
                            error |-> "Failed to create user profile"]
                  ELSE [success |-> TRUE, user |-> Absent, session |-> Absent,
                        error |-> Absent]]_vars

\* createUserProfile failed on a provider-reported error and left no call
\* pending
C13_Witness ==
    /\ lastResult.op = "createUserProfile"
    /\ lastResult.a1 = "u1" /\ lastResult.a2 = "kez"
    /\ ProviderReported(lastResult.resp)
    /\ lastResult.out.result.error = "Failed to create user profile"
    /\ inFlight = <<>>

----------------------------------------------------------------------------
(* Claims about the provider client and the form controllers (SpecForm) *)

\* a configuration value that is present and not the empty string
NonEmpty(v) == v # Absent /\ v # ""

\* the page's module scripts have been evaluated
Loaded == client # Null \/ loadError # Absent

\* C14: the provider client is constructed for every pair of a non-empty
\* endpoint URL and a non-empty API key; if either is empty or missing the
\* construction fails with the configuration error and no client, no
\* gateway and no form handler comes to exist
C14_ClientConstruction ==
    /\ Loaded =>
          IF NonEmpty(env.url) /\ NonEmpty(env.key)
          THEN /\ client = createClient(env.url, env.key)
               /\ loadError = Absent
          ELSE /\ client = Null
               /\ loadError = "Missing Supabase environment variables"
    /\ client = Null =>
          /\ upstreamSubs = 0
          /\ ~wired
          /\ subs = <<>>
          /\ lastDone = NotDone
          /\ errorBox = ClearedError

\* a build with the URL set and the key empty has failed to load
C14_Witness ==
    /\ NonEmpty(env.url)
    /\ env.key = ""
    /\ loadError = "Missing Supabase environment variables"

\* the positions of the createUserProfile calls among a submission's calls
ProfileCalls(calls) ==
    {i \in 1..Len(calls) : calls[i].op = "createUserProfile"}

\* the calls of one signup submission and the result its signup call
\* delivered: createUserProfile at most once, after the signup call, and
\* only with the non-empty id of a successful signup
ProfileCallInOrder(calls, authOut) ==
    /\ Cardinality(ProfileCalls(calls)) <= 1
    /\ ProfileCalls(calls) # {} =>
          /\ Len(calls) = 2
          /\ calls[1].op = "signup"
          /\ calls[2].op = "createUserProfile"
          /\ ~authOut.raised
          /\ authOut.result.success
          /\ authOut.result.user \in Users
          /\ calls[2].a1 = authOut.result.user

\* C15: in every signup submission createUserProfile is called only after
\* signup has resolved with success and a non-empty user id, with exactly
\* that id, never while the signup call is pending, and at most once
C15_ProfileOnlyAfterSignup ==
    /\ \A k \in 1..Len(subs) :
          /\ ProfileCallInOrder(subs[k].calls, subs[k].signupResult)
          /\ subs[k].stage = "auth" =>
                /\ ProfileCalls(subs[k].calls) = {}
                /\ subs[k].signupResult = NoOutcome
          /\ subs[k].stage = "profile" => ProfileCalls(subs[k].calls) = {2}
    /\ ProfileCallInOrder(lastDone.calls, lastDone.authOut)
    /\ lastDone.path # "none" /\ lastDone.profileOut = NoOutcome =>
          ProfileCalls(lastDone.calls) = {}

\* a submission waits for createUserProfile("u2", ...) while a later one
\* that the provider answered with a user without id has ended
C15_Witness ==
    /\ \E k \in 1..Len(subs) :
          /\ subs[k].stage = "profile"
          /\ subs[k].calls[2].a1 = "u2"
    /\ lastDone.authOut = Returned(Success(UserWithoutId, "s1"))

\* this step is one in which a suspended handler invocation runs to its end
Completes == Len(subs') < Len(subs)

\* the step ends exactly one invocation and touches no other
EndsOne ==
    \E k \in 1..Len(subs) :
        /\ subs' = SubSeq(subs, 1, k - 1) \o SubSeq(subs, k + 1, Len(subs))
        /\ lastDone'.calls = subs[k].calls

\* the two calls of a signup submission that got as far as the profile
SignupThenProfile(calls) ==
    /\ Len(calls) = 2
    /\ calls[1].op = "signup"
    /\ calls[2].op = "createUserProfile"

\* C16: when signup returned success with a user id and createUserProfile
\* with that id returned success, the controller navigates to hub.html and
\* the submission ends having made those two gateway calls and no other
C16_SuccessNavigates ==
    [][(/\ Completes
        /\ ~lastDone'.profileOut.raised
        /\ lastDone'.profileOut.result.success)
       => /\ location' = "hub.html"
          /\ lastDone'.path = "navigate"
          /\ EndsOne
          /\ SignupThenProfile(lastDone'.calls)
          /\ lastDone'.calls[2].a1 = lastDone'.authOut.result.user
          /\ UNCHANGED <<errorBox, gatewayVars>>]_vars

\* the page has been sent to hub.html by a signup for user u1
C16_Witness ==
    /\ form = "signup"
    /\ location = "hub.html"
    /\ lastDone.path = "navigate"
    /\ lastDone.authOut.result.user = "u1"

\* C17: when signup succeeded with a user id and createUserProfile returned
\* {success: false, error: E}, the controller displays exactly E, does not
\* navigate, and makes no further gateway call
C17_ProfileFailureShown ==
    [][(/\ Completes
        /\ ~lastDone'.profileOut.raised
        /\ ~lastDone'.profileOut.result.success
        /\ lastDone'.profileOut.result.error # Absent)
       => /\ errorBox' = [text |-> lastDone'.profileOut.result.error,
                          show |-> TRUE]
          /\ location' = location
          /\ lastDone'.path = "failed"
          /\ EndsOne
          /\ SignupThenProfile(lastDone'.calls)
          /\ UNCHANGED gatewayVars]_vars

\* the profile insert was refused and the page shows the service's message
C17_Witness ==
    /\ lastDone.profileOut = Returned(Failure("Failed to create user profile"))
    /\ errorBox.text = "Failed to create user profile"
    /\ location = "index.html"

\* the rules in their fixed order, each with its message; a rule that does
\* not apply to the form never fires
Rules(f, typed) ==
    LET email == Trim(typed.email)
        username == IF f = "signup" THEN Trim(typed.username) ELSE "-"
    IN  << [violated |-> email = "" \/ typed.password = "" \/ username = "",
            message |-> IF f = "login"
                        THEN "Please enter both email and password"
                        ELSE "Please fill in all fields"],
           [violated |-> \A i \in 1..Len(email) : SubSeq(email, i, i) # "@",
            message |-> "Please enter a valid email address"],
           [violated |-> f = "signup" /\ Len(typed.password) < 6,
            message |-> "Password must be at least 6 characters"],
           [violated |-> f = "signup" /\ Len(username) < 3,
            message |-> "Username must be at least 3 characters"] >>

ViolatedRules(f, typed) ==
    {i \in 1..Len(Rules(f, typed)) : Rules(f, typed)[i].violated}

FirstViolation(f, typed) ==
    Rules(f, typed)[CHOOSE i \in ViolatedRules(f, typed) :
                        \A j \in ViolatedRules(f, typed) : i <= j].message

\* for every input the forms may hold: the message of the first violated
\* rule, or Valid
Verdict ==
    [f \in Forms |->
        [typed \in FormFields(f) |->
            IF ViolatedRules(f, typed) = {} THEN Valid
            ELSE FirstViolation(f, typed)]]

\* C18: a submission whose input violates a local rule makes no gateway
\* call and leaves the submit control as it was, and the message displayed
\* is that of the first violated rule in the order: empty field, email
\* without '@', password shorter than 6, username shorter than 3
C18_FirstViolationOnly ==
    [][/\ Len(subs') > Len(subs) => Verdict[form][fields] = Valid
       /\ (/\ Verdict[form][fields] # Valid
           /\ errorBox' # errorBox
           /\ UNCHANGED <<subs, fields, client>>)
          => /\ errorBox' = [text |-> Verdict[form][fields], show |-> TRUE]
             /\ UNCHANGED <<button, gatewayVars, location, lastDone>>
       /\ (/\ fields = Typed("not-an-email", "abc", "ab")
           /\ errorBox' # errorBox
           /\ UNCHANGED <<subs, fields>>)
          => errorBox'.text = "Please enter a valid email address"
       /\ (/\ fields = Typed(" kez@darts.io ", "abc", " kez ")
           /\ errorBox' # errorBox
           /\ UNCHANGED <<subs, fields>>)
          => errorBox'.text = "Password must be at least 6 characters"]_vars

\* a signup with password "abc" and a two-letter username was turned away
\* with the password message while an earlier submission was pending
C18_Witness ==
    /\ fields = Typed(" kez@darts.io ", "abc", "ab")
    /\ errorBox = [text |-> "Password must be at least 6 characters",
                   show |-> TRUE]
    /\ Len(subs) = 1
    /\ button = LoadingButton

\* the invocation this step ends captured the button text t before its await
EndedWithText(t) ==
    \E k \in 1..Len(subs) :
        /\ subs' = SubSeq(subs, 1, k - 1) \o SubSeq(subs, k + 1, Len(subs))
        /\ lastDone'.calls = subs[k].calls
        /\ subs[k].originalText = t

\* C19 as stated: the submit control is not re-enabled on the success path
\* (the step that triggers the navigation leaves it disabled) and is
\* re-enabled on the failure path and on the exception path
C19_ReenableSkippedOnSuccess ==
    [][Completes =>
          IF lastDone'.path = "navigate" THEN button'.disabled
          ELSE ~button'.disabled]_vars

\* C19: re-enabling the submit control runs on every path on which a
\* submission ends, the success path included: the step enables the
\* button, removes its loading state and puts back the text the invocation
\* captured
C19_ReenableOnEveryPath ==
    [][Completes =>
          /\ lastDone'.path \in {"navigate", "failed", "exception"}
          /\ ~button'.disabled
          /\ ~button'.loading
          /\ EndedWithText(button'.text)]_vars

\* a login has triggered the navigation and its button is enabled again
C19_Witness ==
    /\ form = "login"
    /\ lastDone.path = "navigate"
    /\ location = "hub.html"
    /\ subs = <<>>
    /\ button = [disabled |-> FALSE, loading |-> FALSE, text |-> "Log In"]

\* C20: at most one submission of the form is in flight at any time
C20_OneSubmissionInFlight == Len(subs) <= 1

\* every pending gateway call is eventually answered: each suspended
\* invocation is eventually resumed
ProviderAnswers ==
    \A k \in 1..MaxSubmissions :
        /\ WF_vars(\E out \in LoginOutcomes : LoginResumes(k, out))
        /\ WF_vars(\E out \in SignupOutcomes : SignupResumes(k, out))
        /\ WF_vars(\E out \in ProfileOutcomes : ProfileResumes(k, out))

\* a loaded page of a configured build whose inputs the user has filled
InitTyped ==
    /\ InitListeners
    /\ InitGateway
    /\ env = [url |-> "https://lovedarts.supabase.co", key |-> "anon-key"]
    /\ client = supabaseClient(env.url, env.key).client
    /\ loadError = Absent
    /\ wired = TRUE
    /\ \E f \in Forms :
          /\ form = f
          /\ fields \in FormFields(f)
          /\ button = [disabled |-> FALSE, loading |-> FALSE,
                       text |-> ButtonLabel(f)]
    /\ errorBox = ClearedError
    /\ location = "index.html"
    /\ subs = <<>>
    /\ lastDone = NotDone

\* submissions of what has been typed, and the provider's answers
NextSubmit ==
    \/ ClickSubmit
    \/ PressEnter
    \/ \E k \in 1..MaxSubmissions, out \in LoginOutcomes : LoginResumes(k, out)
    \/ \E k \in 1..MaxSubmissions, out \in SignupOutcomes :
            SignupResumes(k, out)
    \/ \E k \in 1..MaxSubmissions, out \in ProfileOutcomes :
            ProfileResumes(k, out)

\* the filled pages, with a provider that answers every call
SpecFormFair == InitTyped /\ [][NextSubmit]_vars /\ ProviderAnswers

\* this step ends the oldest suspended invocation
HeadEnds == subs # <<>> /\ subs' = Tail(subs)

\* the three ways an invocation ends, each with what the page shows
EndsInOneWay ==
    \/ /\ lastDone'.path = "navigate"
       /\ location' = "hub.html"
       /\ errorBox' = errorBox
    \/ /\ lastDone'.path = "failed"
       /\ location' = location
       /\ errorBox' = [text |-> lastDone'.message, show |-> TRUE]
       /\ lastDone'.message # UnexpectedError
    \/ /\ lastDone'.path = "exception"
       /\ location' = location
       /\ errorBox' = [text |-> UnexpectedError, show |-> TRUE]

\* C21: a submission that passed validation runs to completion: with every
\* provider call answered, the oldest suspended submission ends again and
\* again until none is left; it ends in exactly one of navigation, a
\* reported error on display, or the generic message on display; and the
\* button leaves its loading state only in a step that ends a submission
C21_RunsToCompletion ==
    /\ [][Completes => EndsInOneWay]_vars
    /\ [][button.loading /\ ~button'.loading => Completes /\ EndsOne]_vars
    /\ ([]<><<HeadEnds>>_vars \/ <>[](subs = <<>>))

\* two submissions have been started and both have ended
C21_Witness ==
    /\ subs = <<>>
    /\ lastDone.path = "failed"
    /\ button.text = ""
    /\ ~button.disabled

\* C22: a login submission navigates to hub.html if and only if
\* authService.login returned success = true; when it returned
\* {success: false, error: E} the page displays E and does not navigate
C22_LoginNavigatesIffSuccess ==
    [][(Completes /\ form = "login") =>
          LET out == lastDone'.authOut
              succeeded == ~out.raised /\ out.result.success
          IN  /\ lastDone'.path = "navigate" <=> succeeded
              /\ IF succeeded THEN location' = "hub.html"
                 ELSE location' = location
              /\ (~out.raised /\ ~out.result.success) =>
                    errorBox' = [text |-> out.result.error, show |-> TRUE]]_vars

\* a login was refused: the page shows the gateway's message and stays
C22_Witness ==
    /\ form = "login"
    /\ lastDone.path = "failed"
    /\ lastDone.authOut = login(ResolvesError("invalid login credentials"))
    /\ errorBox.text = lastDone.authOut.result.error
    /\ location = "index.html"

----------------------------------------------------------------------------
(* Further claims about the listener registry and the fan-out *)

\* in this step the listener being invoked calls its own unsubscribe
\* function
SelfUnsubscribes ==
    /\ pc = "fanout"
    /\ fanIdx <= fanLen
    /\ unsubCalls'[fanArr[fanIdx]] = unsubCalls[fanArr[fanIdx]] + 1

\* C23: a listener that calls its own unsubscribe function while it is
\* invoked does not make the fan-out fail: the iteration goes on over the
\* listeners registered when the fan-out began, each invoked exactly once,
\* and a registration unsubscribed before a fan-out began is not invoked
\* in it
C23_SelfUnsubscribeInFanout ==
    [][/\ SelfUnsubscribes =>
            /\ pc' = "fanout"
            /\ ~streamError'
            /\ fanIdx' = fanIdx + 1
            /\ fanLen' = fanLen
            /\ Len(fanArr') >= fanLen
            /\ \A i \in 1..fanLen : fanArr'[i] = emitListeners[i]
            /\ fanArr[fanIdx] \notin Range(authStateListeners')
       /\ FanoutDone =>
            /\ Len(invoked) = Len(emitListeners)
            /\ \A i \in 1..Len(invoked) :
                /\ invoked[i].reg = emitListeners[i]
                /\ emitCalls[invoked[i].reg] = 0
            /\ \A i, j \in 1..Len(invoked) :
                invoked[i].reg = invoked[j].reg => i = j]_vars

\* the first of two listeners has just unsubscribed itself and the second
\* is about to be invoked
C23_Witness ==
    /\ pc = "fanout"
    /\ fanLen >= 2
    /\ fanIdx = 2
    /\ unsubCalls[fanArr[1]] = emitCalls[fanArr[1]] + 1
    /\ fanArr[1] \notin Range(authStateListeners)
    /\ callbackOf[fanArr[1]] # callbackOf[fanArr[2]]

----------------------------------------------------------------------------
(* Further claims about the form controllers (SpecForm) *)

\* C24: whenever a gateway call issued by a form controller is pending,
\* the controller's submit button is disabled and shown as loading
C24_DisabledWhilePending ==
    subs # <<>> => button.disabled /\ button.loading

\* C25: when every submission started on the form has ended and none of
\* them navigated, the submit button is enabled, not loading, and shows the
\* label it had before the first submission
C25_LabelRestored ==
    (subs = <<>> /\ location # "hub.html") =>
        button = [disabled |-> FALSE, loading |-> FALSE,
                  text |-> ButtonLabel(form)]

----------------------------------------------------------------------------
(* Further claims about the gateways (SpecGateway) *)

\* the message of the specification's table for every raw error text
TableMessages == [raw \in RawErrors |-> TableMessage(raw)]

\* what login returns for a provider response, by the rules of the
\* specification
LoginResultFor(resp) ==
    IF ProviderRaised(resp)
    THEN [success |-> FALSE, user |-> Absent, session |-> Absent,
          error |-> "An unexpected error occurred during login"]
    ELSE IF ProviderReported(resp)
    THEN [success |-> FALSE, user |-> Absent, session |-> Absent,
          error |-> TableMessages[resp.message]]
    ELSE IF ProviderSucceeded(resp)
    THEN [success |-> TRUE, user |-> resp.user, session |-> resp.session,
          error |-> Absent]
    ELSE [success |-> FALSE, user |-> Absent, session |-> Absent,
          error |-> "An unexpected error occurred during login"]

\* C26: a login called while another login is pending issues a provider
\* sign-in call of its own (no de-duplication, no queueing behind the
\* first), the pending calls settle in any order, one at a time, and the
\* result of each is determined by its own provider response
C26_ConcurrentLoginsIndependent ==
    [][/\ ( /\ Len(inFlight') = Len(inFlight) + 1
            /\ Last(inFlight').op = "login" )
          => /\ SubSeq(inFlight', 1, Len(inFlight)) = inFlight
             /\ Last(inFlight').call = "auth.signInWithPassword"
             /\ Last(inFlight').payload.email = Last(inFlight').a1
             /\ Last(inFlight').payload.password = Last(inFlight').a2
       /\ ( /\ Len(inFlight') < Len(inFlight)
            /\ lastResult'.op = "login" )
          => /\ \E i \in 1..Len(inFlight) :
                  /\ inFlight[i].op = "login"
                  /\ inFlight' = SubSeq(inFlight, 1, i - 1)
                                    \o SubSeq(inFlight, i + 1, Len(inFlight))
             /\ ~lastResult'.out.raised
             /\ lastResult'.out.result = LoginResultFor(lastResult'.resp)]_vars

\* two logins are pending at once, after a login that failed on its own
\* response
C26_Witness ==
    /\ Len(inFlight) = 2
    /\ inFlight[1].op = "login"
    /\ inFlight[2].op = "login"
    /\ lastResult.op = "login"
    /\ ProviderReported(lastResult.resp)
    /\ ~lastResult.out.result.success

----------------------------------------------------------------------------
(* Claims about the upstream subscription and the registry's frame *)

\* C27: the constructed AuthService holds exactly one subscription on the
\* provider's state stream, no operation adds or removes one, and a
\* provider event therefore begins exactly one fan-out, which no second
\* fan-out interrupts
C27_OneUpstreamSubscription ==
    [][/\ upstreamSubs = 1
       /\ upstreamSubs' = upstreamSubs
       /\ (pc = "idle" /\ pc' = "fanout") =>
            /\ fanArr' = authStateListeners
            /\ fanIdx' = 1
            /\ invoked' = <<>>
       /\ (pc = "fanout" /\ pc' = "fanout") =>
            /\ emitSession' = emitSession
            /\ emitListeners' = emitListeners
            /\ Len(invoked') = Len(invoked) + 1]_vars

\* after registrations and an unsubscribe, one event has invoked two
\* listeners once each over the single subscription
C27_Witness ==
    /\ upstreamSubs = 1
    /\ FanoutDone
    /\ Len(invoked) = 2
    /\ Len(callbackOf) = 3
    /\ \E h \in 1..Len(emitCalls) : emitCalls[h] >= 1

----------------------------------------------------------------------------
(* Claims about the controllers' error display (SpecForm) *)

\* the result of the gateway call whose settling ended the last submission
EndingOut(done) ==
    IF done.profileOut = NoOutcome THEN done.authOut ELSE done.profileOut

\* C28: when a gateway call of a form controller rejects, the controller
\* shows 'An unexpected error occurred. Please try again.' and nothing of
\* the exception's text, does not navigate, and re-enables the button; a
\* {success: false, error} result is shown with its own error text
C28_RejectionIsGeneric ==
    [][Completes =>
          LET out == EndingOut(lastDone')
          IN  /\ out.raised =>
                    /\ errorBox' =
                        [text |-> "An unexpected error occurred. Please try again.",
                         show |-> TRUE]
                    /\ ~Includes(errorBox'.text, out.result.error)
                    /\ location' = location
                    /\ ~button'.disabled
              /\ (~out.raised /\ ~out.result.success) =>
                    /\ errorBox' = [text |-> out.result.error, show |-> TRUE]
                    /\ errorBox'.text #
                        "An unexpected error occurred. Please try again."]_vars

\* a signup whose createUserProfile call rejected ended with the generic
\* message on an enabled button
C28_Witness ==
    /\ lastDone.path = "exception"
    /\ lastDone.profileOut.raised
    /\ errorBox.text = "An unexpected error occurred. Please try again."
    /\ ~button.disabled
    /\ location = "index.html"

----------------------------------------------------------------------------
(* Claims about registrations made during a fan-out (SpecListeners) *)

\* the registrations the fan-out in progress has invoked
InvokedRegs == {invoked[i].reg : i \in 1..Len(invoked)}

\* registration h was made by a listener during the fan-out in progress
RegisteredInFanout(h) ==
    /\ pc = "fanout"
    /\ h > Len(emitCalls)
    /\ h <= Len(callbackOf)

\* registration h existed when the fan-out in progress began, and no
\* unsubscribe function of its callback had been called since h was made:
\* each was never called, or called once when h did not exist yet
ActiveAtEmit(h) ==
    /\ h <= Len(emitCalls)
    /\ \A g \in RegsAtEmit(callbackOf[h]) :
          \/ emitCalls[g] = 0
          \/ emitCalls[g] = 1 /\ firstCallAt[g] < h

\* registration h is invoked once in the finished fan-out, after every
\* earlier registration the fan-out invokes
InvokedOnceInOrder(h) ==
    \E i \in 1..Len(invoked) :
        /\ invoked[i].reg = h
        /\ \A j \in 1..Len(invoked) :
              /\ invoked[j].reg = h => j = i
              /\ invoked[j].reg < h => j < i

\* C29: a listener registered with onAuthStateChange from inside a listener
\* invocation is appended to the registry and is not invoked in the
\* fan-out in progress; every later fan-out invokes it once, after all
\* earlier registrations, until an unsubscribe function for its callback
\* has been called
C29_RegisteredInsideFanout ==
    [][/\ (pc = "fanout" /\ Len(callbackOf') = Len(callbackOf) + 1) =>
            /\ authStateListeners'[Len(authStateListeners')] = Len(callbackOf')
            /\ fanLen' = fanLen
            /\ pc' = "fanout"
       /\ \A h \in 1..Len(callbackOf) :
            /\ RegisteredInFanout(h) => h \notin InvokedRegs
            /\ (FanoutDone /\ ActiveAtEmit(h)) => InvokedOnceInOrder(h)]_vars

\* a listener has registered a callback during a fan-out over two
\* listeners, which ended without invoking the new registration
C29_Witness ==
    /\ FanoutDone
    /\ Len(invoked) = 2
    /\ RegisteredInFanout(3)
    /\ authStateListeners = <<1, 2, 3>>
    /\ 3 \notin InvokedRegs

\* the elements of listeners that hold another callback than cb, in order
OthersThan(listeners, cb) ==
    SelectSeq(listeners, LAMBDA r : callbackOf[r] # cb)

\* every element of after is an element of before, in the same order
KeepsOrder(before, after) ==
    \A i, j \in 1..Len(after) :
        i < j =>
            \E k, l \in 1..Len(before) :
                /\ k < l
                /\ before[k] = after[i]
                /\ before[l] = after[j]

\* C30: invoking an unsubscribe function of callback A leaves every
\* registration of any other callback in the registry, the remaining
\* listeners in their order; a step that neither registers nor
\* unsubscribes (the fan-out itself, the gateway's operations) leaves the
\* registry as it is
C30_RegistryFrame ==
    [][/\ \A h \in 1..Len(callbackOf) :
            unsubCalls'[h] = unsubCalls[h] + 1 =>
                /\ OthersThan(authStateListeners', callbackOf[h])
                    = OthersThan(authStateListeners, callbackOf[h])
                /\ KeepsOrder(authStateListeners, authStateListeners')
                /\ Len(authStateListeners') <= Len(authStateListeners)
       /\ (unsubCalls' = unsubCalls /\ callbackOf' = callbackOf) =>
            authStateListeners' = authStateListeners]_vars

\* the unsubscribe function of the first callback was called and the two
\* registrations of the other callback are in the registry, in order
C30_Witness ==
    /\ Len(callbackOf) = 3
    /\ callbackOf[1] # callbackOf[2]
    /\ callbackOf[2] = callbackOf[3]
    /\ unsubCalls = <<1, 0, 0>>
    /\ authStateListeners = <<2, 3>>
    /\ pc = "fanout"
    /\ Len(invoked) = 2

====
